---------------------------- MODULE Spec2Model ----------------------------
(***************************************************************************)
(* A model of docker-retag (cmd/docker-retag/docker-retag.go): the         *)
(* reference parser urlToImageTag, the credential resolver registryAuth,   *)
(* the two registry calls getManifest / uploadManifest and the fan-out of  *)
(* main over manifestUploadWorker goroutines.                              *)
(*                                                                         *)
(* Go strings are sequences of byte values (ASCII codes), so that          *)
(* splitting, joining and base64 are computed and not assumed.             *)
(***************************************************************************)
EXTENDS Integers, Sequences, FiniteSets, TLC

VARIABLES
    \* ---- process-wide state of the program
    Username,       \* var Username string (line 20)
    Password,       \* var Password string (line 21)
    DOCKER_USER,    \* os.Getenv("DOCKER_USER")
    DOCKER_PASS,    \* os.Getenv("DOCKER_PASS")
    dockerConfig,   \* the file $HOME/.docker/config.json
    \* ---- one call of urlToImageTag
    url,            \* its argument
    parsed,         \* its result, or NotCalled
    \* ---- one call of registryAuth
    authRegistry,   \* its argument
    authResult,     \* its result, or NotCalled
    \* ---- main
    flags,          \* the parsed command line: -u, -p, -P, -v and stdin
    args,           \* dockerRetagFlags.Args(): <<image, newImages...>>
    pc,             \* main's position
    exit,           \* how the process ended, "running" while it has not
    wire,           \* the manifest document the registry answers the GET with
    manifest,       \* main's local manifest (the decoded struct)
    gets,           \* number of GET requests sent
    answers,        \* what the registry may answer a GET and a PUT with in this run
    spawned,        \* worker goroutines started (loop of line 364)
    enqueued,       \* jobs sent by the loop of line 367
    jobs,           \* the jobs channel: the queued UploadJobs
    closed,         \* close(jobs) has run
    busy,           \* workers inside uploadManifest
    gone,           \* workers that returned from the range loop
    calls,          \* per job: calls of uploadManifest
    puts,           \* the PUT requests sent, in order
    results,        \* the results channel: queued error values
    collected,      \* the results main's loop of line 374 received, in order
    surfaced        \* the error main logged before os.Exit(1)

envVars  == <<Username, Password, DOCKER_USER, DOCKER_PASS, dockerConfig>>
parseVars == <<url, parsed>>
authVars == <<authRegistry, authResult>>
mainVars == <<flags, args, pc, exit, wire, manifest, gets, answers, spawned,
              enqueued, jobs, closed, busy, gone, calls, puts, results, collected,
              surfaced>>
vars == <<envVars, parseVars, authVars, mainVars>>

NotCalled == [called |-> FALSE]

----------------------------------------------------------------------------
(* Byte strings *)

SLASH == 47
COLON == 58
EQUALS == 61
SPACE == 32
NEWLINE == 10

\* "latest"
Latest == <<108, 97, 116, 101, 115, 116>>
\* "index.docker.io"
DefaultRegistry == <<105, 110, 100, 101, 120, 46, 100, 111, 99, 107, 101, 114, 46, 105, 111>>

Contains(s, c) == \E i \in 1..Len(s) : s[i] = c

\* index of the first c in s (s contains c)
IndexOf(s, c) == CHOOSE i \in 1..Len(s) : s[i] = c /\ \A k \in 1..(i - 1) : s[k] # c

\* strings.Split(s, sep) for a one-byte separator
RECURSIVE Split(_, _)
Split(s, c) ==
    IF ~Contains(s, c) THEN <<s>>
    ELSE LET i == IndexOf(s, c)
         IN  <<SubSeq(s, 1, i - 1)>> \o Split(SubSeq(s, i + 1, Len(s)), c)

\* strings.Join(parts, sep)
RECURSIVE Join(_, _)
Join(parts, c) ==
    IF Len(parts) = 0 THEN <<>>
    ELSE IF Len(parts) = 1 THEN parts[1]
    ELSE parts[1] \o <<c>> \o Join(Tail(parts), c)

IsSpace(b) == b \in {SPACE, NEWLINE}

\* strings.TrimSpace
RECURSIVE TrimLeft(_)
TrimLeft(s) == IF Len(s) > 0 /\ IsSpace(s[1]) THEN TrimLeft(Tail(s)) ELSE s
RECURSIVE TrimRight(_)
TrimRight(s) ==
    IF Len(s) > 0 /\ IsSpace(s[Len(s)]) THEN TrimRight(SubSeq(s, 1, Len(s) - 1)) ELSE s
TrimSpace(s) == TrimRight(TrimLeft(s))

----------------------------------------------------------------------------
(* urlToImageTag, lines 106-152 *)

urlToImageTagLastSegment(u) ==
    LET hasReg   == Contains(u, SLASH)
        splitUrl == Split(u, SLASH)
        registry == IF hasReg THEN splitUrl[1] ELSE DefaultRegistry
        image0   == IF hasReg THEN Join(Tail(splitUrl), SLASH) ELSE u
        splitImage == Split(image0, COLON)
    IN  IF Contains(image0, COLON)
        THEN [called |-> TRUE, registry |-> registry,
              image |-> Join(SubSeq(splitImage, 1, Len(splitImage) - 1), COLON),
              tag |-> splitImage[Len(splitImage)]]
        ELSE [called |-> TRUE, registry |-> registry, image |-> image0, tag |-> Latest]

urlToImageTag(u) ==
    LET hasReg   == Contains(u, SLASH)
        splitUrl == Split(u, SLASH)
        registry == IF hasReg THEN splitUrl[1] ELSE DefaultRegistry
        image0   == IF hasReg THEN Join(Tail(splitUrl), SLASH) ELSE u
        splitImage == Split(image0, COLON)
    IN  IF Contains(image0, COLON)
        THEN [called |-> TRUE, registry |-> registry,
              image |-> splitImage[1], tag |-> splitImage[2]]
        ELSE [called |-> TRUE, registry |-> registry, image |-> image0, tag |-> Latest]

----------------------------------------------------------------------------
(* base64.StdEncoding.EncodeToString, used at lines 65 and 69 *)

\* the i-th character of the standard alphabet A-Z a-z 0-9 + /
B64Char(i) ==
    IF i < 26 THEN 65 + i
    ELSE IF i < 52 THEN 97 + (i - 26)
    ELSE IF i < 62 THEN 48 + (i - 52)
    ELSE IF i = 62 THEN 43 ELSE 47

RECURSIVE EncodeToString(_)
EncodeToString(b) ==
    IF Len(b) = 0 THEN <<>>
    ELSE IF Len(b) = 1 THEN
        LET n == b[1] * 65536
        IN  <<B64Char(n \div 262144), B64Char((n \div 4096) % 64), EQUALS, EQUALS>>
    ELSE IF Len(b) = 2 THEN
        LET n == b[1] * 65536 + b[2] * 256
        IN  <<B64Char(n \div 262144), B64Char((n \div 4096) % 64),
              B64Char((n \div 64) % 64), EQUALS>>
    ELSE
        LET n == b[1] * 65536 + b[2] * 256 + b[3]
        IN  <<B64Char(n \div 262144), B64Char((n \div 4096) % 64),
              B64Char((n \div 64) % 64), B64Char(n % 64)>>
            \o EncodeToString(SubSeq(b, 4, Len(b)))

----------------------------------------------------------------------------
(* The file $HOME/.docker/config.json as json.Unmarshal sees it.  A JSON   *)
(* value is a record: t its type, s its text when a string, m its members *)
(* when an object.  A Go interface{} holding JSON null, and the value of a  *)
(* missing map key, are both nil.                                          *)

JNull   == [t |-> "null", s |-> <<>>, m |-> <<>>]
JNum    == [t |-> "num",  s |-> <<>>, m |-> <<>>]
JStr(x) == [t |-> "str",  s |-> x,    m |-> <<>>]
JObj(f) == [t |-> "obj",  s |-> <<>>, m |-> f]

\* m[k] of a Go map[string]interface{}
Lookup(obj, k) == IF k \in DOMAIN obj.m THEN obj.m[k] ELSE JNull

\* "auths" and "auth"
KeyAuths == <<97, 117, 116, 104, 115>>
KeyAuth  == <<97, 117, 116, 104>>

Missing    == [st |-> "missing",    v |-> JNull]   \* os.Stat fails
Unreadable == [st |-> "unreadable", v |-> JNull]   \* ioutil.ReadFile fails
Invalid    == [st |-> "invalid",    v |-> JNull]   \* not JSON
FileWith(v) == [st |-> "json", v |-> v]

----------------------------------------------------------------------------
(* registryAuth, lines 53-104 *)

AuthOk(tok) == [called |-> TRUE, out |-> "ok",    tok |-> tok]
AuthErr     == [called |-> TRUE, out |-> "err",   tok |-> <<>>]
AuthPanic   == [called |-> TRUE, out |-> "panic", tok |-> <<>>]

\* lines 71-103: the docker config
dockerConfigAuth(registry) ==
    IF dockerConfig.st = "missing" THEN AuthOk(<<>>)                      \* 74, 102
    ELSE IF dockerConfig.st = "unreadable" THEN AuthErr                   \* 79
    ELSE IF dockerConfig.st = "invalid"
            \/ dockerConfig.v.t \notin {"obj", "null"} THEN AuthErr       \* 86
    ELSE LET auths == Lookup(dockerConfig.v, KeyAuths)
         IN  IF auths.t # "obj" THEN AuthPanic                            \* 91
             ELSE LET auth == Lookup(auths, registry)
                  IN  IF auth.t # "obj" THEN AuthPanic                    \* 93
                      ELSE LET a == Lookup(auth, KeyAuth)
                           IN  IF a.t = "null" THEN AuthOk(<<>>)          \* 95
                               ELSE IF a.t # "str" THEN AuthPanic         \* 99
                               ELSE AuthOk(a.s)                           \* 100

registryAuthEnvFirst(registry) ==
    IF DOCKER_USER # <<>> /\ DOCKER_PASS # <<>>
    THEN AuthOk(EncodeToString(DOCKER_USER \o <<COLON>> \o DOCKER_PASS))
    ELSE IF Username # <<>> /\ Password # <<>>
    THEN AuthOk(EncodeToString(Username \o <<COLON>> \o Password))
    ELSE dockerConfigAuth(registry)

registryAuth(registry) ==
    IF Username # <<>> /\ Password # <<>>
    THEN AuthOk(EncodeToString(Username \o <<COLON>> \o Password))
    ELSE IF DOCKER_USER # <<>> /\ DOCKER_PASS # <<>>
    THEN AuthOk(EncodeToString(DOCKER_USER \o <<COLON>> \o DOCKER_PASS))
    ELSE dockerConfigAuth(registry)

----------------------------------------------------------------------------
(* Inputs *)

MaxUrlLen == 5
MaxCredLen == 2

\* all byte strings over alphabet of length at most n
RECURSIVE Strings(_, _)
Strings(alphabet, n) ==
    IF n = 0 THEN {<<>>}
    ELSE LET shorter == Strings(alphabet, n - 1)
         IN  shorter \cup {Append(s, c) : s \in shorter, c \in alphabet}

\* references over a, b, / and :
Urls == Strings({97, 98, SLASH, COLON}, MaxUrlLen)

\* registry hosts "h" and "k"
Hosts == {<<104>>, <<107>>}

\* a stored token, "dTpw"
StoredToken == <<100, 84, 112, 119>>

AuthMembers == {<<>>} \cup {[k \in {KeyAuth} |-> a] : a \in {JNull, JNum, JStr(<<>>), JStr(StoredToken)}}
HostEntries == {JNull, JStr(StoredToken)} \cup {JObj(f) : f \in AuthMembers}
AuthsMaps   == UNION {[hs -> HostEntries] : hs \in SUBSET Hosts}
TopLevels   == {JNull, JStr(StoredToken), JObj(<<>>)}
                 \cup {JObj([k \in {KeyAuths} |-> a]) : a \in {JNull, JStr(StoredToken)}}
                 \cup {JObj([k \in {KeyAuths} |-> JObj(f)]) : f \in AuthsMaps}
DockerConfigs == {Missing, Unreadable, Invalid} \cup {FileWith(v) : v \in TopLevels}

----------------------------------------------------------------------------
(* The state of a process that has not started main *)

NoFlags == [u |-> <<>>, p |-> <<>>, P |-> FALSE, v |-> FALSE, stdin |-> <<>>]
NoManifest == [called |-> FALSE]

MainIdle ==
    /\ flags = NoFlags /\ args = <<>> /\ pc = "idle" /\ exit = "running"
    /\ wire = NoManifest /\ manifest = NoManifest /\ gets = 0 /\ answers = [get |-> {}, put |-> {}]
    /\ spawned = 0 /\ enqueued = 0 /\ jobs = <<>> /\ closed = FALSE
    /\ busy = 0 /\ gone = 0
    /\ calls = <<>> /\ puts = <<>> /\ results = <<>> /\ collected = <<>>
    /\ surfaced = "none"

NoEnv ==
    /\ Username = <<>> /\ Password = <<>>
    /\ DOCKER_USER = <<>> /\ DOCKER_PASS = <<>>
    /\ dockerConfig = Missing

----------------------------------------------------------------------------
(* One call of urlToImageTag on every reference text *)

InitParse ==
    /\ url \in Urls
    /\ parsed = NotCalled
    /\ authRegistry = <<>> /\ authResult = NotCalled
    /\ NoEnv /\ MainIdle

CallUrlToImageTag ==
    /\ ~parsed.called
    /\ parsed' = urlToImageTag(url)
    /\ UNCHANGED <<url, envVars, authVars, mainVars>>

NextParse == CallUrlToImageTag

SpecParse == InitParse /\ [][NextParse]_vars

----------------------------------------------------------------------------
(* One call of registryAuth in every credential environment *)

InitAuth ==
    /\ Username \in Strings({117}, MaxCredLen)       \* "", "u", "uu"
    /\ Password \in Strings({112}, MaxCredLen)       \* "", "p", "pp"
    /\ DOCKER_USER \in Strings({100}, MaxCredLen)    \* "", "d", "dd"
    /\ DOCKER_PASS \in Strings({115}, MaxCredLen)    \* "", "s", "ss"
    /\ dockerConfig \in DockerConfigs
    /\ authRegistry \in Hosts
    /\ authResult = NotCalled
    /\ url = <<>> /\ parsed = NotCalled
    /\ MainIdle

CallRegistryAuth ==
    /\ ~authResult.called
    /\ authResult' = registryAuth(authRegistry)
    /\ UNCHANGED <<authRegistry, envVars, parseVars, mainVars>>

NextAuth == CallRegistryAuth

SpecAuth == InitAuth /\ [][NextAuth]_vars

----------------------------------------------------------------------------
(* Manifest, lines 25-38: json.Unmarshal of the response body (line 207)   *)
(* keeps the members the struct declares and drops every other one;        *)
(* json.Marshal (line 243) writes the struct's members.                    *)

Unmarshal(doc) ==
    [MediaType     |-> doc.mediaType,
     SchemaVersion |-> doc.schemaVersion,
     Config        |-> [MediaType |-> doc.config.mediaType,
                        Digest    |-> doc.config.digest,
                        Size      |-> doc.config.size],
     Layers        |-> [i \in 1..Len(doc.layers) |->
                           [MediaType |-> doc.layers[i].mediaType,
                            Digest    |-> doc.layers[i].digest,
                            Size      |-> doc.layers[i].size]]]

MarshalReversed(m) ==
    [mediaType     |-> m.MediaType,
     schemaVersion |-> m.SchemaVersion,
     config        |-> [mediaType |-> m.Config.MediaType,
                        digest    |-> m.Config.Digest,
                        size      |-> m.Config.Size],
     layers        |-> [i \in 1..Len(m.Layers) |->
                           [mediaType |-> m.Layers[Len(m.Layers) + 1 - i].MediaType,
                            digest    |-> m.Layers[Len(m.Layers) + 1 - i].Digest,
                            size      |-> m.Layers[Len(m.Layers) + 1 - i].Size]],
     extra         |-> {}]

Marshal(m) ==
    [mediaType     |-> m.MediaType,
     schemaVersion |-> m.SchemaVersion,
     config        |-> [mediaType |-> m.Config.MediaType,
                        digest    |-> m.Config.Digest,
                        size      |-> m.Config.Size],
     layers        |-> [i \in 1..Len(m.Layers) |->
                           [mediaType |-> m.Layers[i].MediaType,
                            digest    |-> m.Layers[i].Digest,
                            size      |-> m.Layers[i].Size]],
     extra         |-> {}]

----------------------------------------------------------------------------
(* Inputs of main *)

MaxTargets == 3

ManifestV2 == "application/vnd.docker.distribution.manifest.v2+json"
LayerType  == "application/vnd.docker.image.rootfs.diff.tar.gzip"
ConfigType == "application/vnd.docker.container.image.v1+json"

\* manifest documents a registry may hold; extra: members the struct lacks
WireDocs ==
    {[mediaType |-> ManifestV2, schemaVersion |-> 2,
      config |-> [mediaType |-> ConfigType, digest |-> "sha256:c1", size |-> 1469],
      layers |-> <<[mediaType |-> LayerType, digest |-> "sha256:l1", size |-> 2479]>>,
      extra |-> {}],
     [mediaType |-> ManifestV2, schemaVersion |-> 2,
      config |-> [mediaType |-> ConfigType, digest |-> "sha256:c2", size |-> 7023],
      layers |-> <<[mediaType |-> LayerType, digest |-> "sha256:l2", size |-> 32654],
                   [mediaType |-> LayerType, digest |-> "sha256:l1", size |-> 2479]>>,
      extra |-> {"annotations"}]}

AnyDoc == CHOOSE d \in WireDocs : TRUE

\* what the registry may answer the GET with
GetResponses ==
    {[out |-> o, doc |-> AnyDoc] : o \in {"transport", "404 Not Found", "undecodable"}}
        \cup {[out |-> "200 OK", doc |-> d] : d \in WireDocs}

\* what a registry may answer a PUT with
PutAnswers == {"201 Created", "404 Not Found", "transport"}

\* "h/a:b" and "k/a"
RefH == <<104, SLASH, 97, COLON, 98>>
RefK == <<107, SLASH, 97>>
Refs == {RefH, RefK}

\* a store that knows host "h" only
StoreForH ==
    FileWith(JObj([k \in {KeyAuths} |->
        JObj([h \in {<<104>>} |-> JObj([a \in {KeyAuth} |-> JStr(StoredToken)])])]))

\* "u", "p", "s\n", "d", "e"
Environments ==
    {[flags |-> NoFlags, user |-> <<>>, pass |-> <<>>, config |-> Missing],
     [flags |-> [NoFlags EXCEPT !.v = TRUE], user |-> <<>>, pass |-> <<>>, config |-> Missing],
     [flags |-> [NoFlags EXCEPT !.u = <<117>>, !.p = <<112>>],
      user |-> <<>>, pass |-> <<>>, config |-> Missing],
     [flags |-> [NoFlags EXCEPT !.u = <<117>>, !.P = TRUE, !.stdin = <<115, NEWLINE>>],
      user |-> <<>>, pass |-> <<>>, config |-> Invalid],
     [flags |-> NoFlags, user |-> <<100>>, pass |-> <<101>>, config |-> StoreForH],
     [flags |-> NoFlags, user |-> <<>>, pass |-> <<>>, config |-> StoreForH],
     [flags |-> NoFlags, user |-> <<>>, pass |-> <<>>, config |-> Invalid]}

\* command lines of up to MaxTargets new images
ArgLists == UNION {[1..n -> Refs] : n \in 0..(MaxTargets + 1)}

----------------------------------------------------------------------------
(* main, lines 307-381 *)

MaxWorkers == 10

image     == args[1]
newImages == SubSeq(args, 2, Len(args))

workersUncapped == Len(newImages)

\* lines 358-361
workers == IF Len(newImages) < MaxWorkers THEN Len(newImages) ELSE MaxWorkers

\* lines 362 and 363: the capacities of the two channels
jobsCap == Len(newImages)

resultsCapOne == IF Len(newImages) > 0 THEN 1 ELSE 0

resultsCap == Len(newImages)

\* a command line of more new images than workers
ManyArgs == [i \in 1..(MaxWorkers + 2) |-> RefH]

InitWith(environments) ==
    /\ Username = <<>> /\ Password = <<>>
    /\ \/ /\ \E e \in environments :
                /\ flags = e.flags
                /\ DOCKER_USER = e.user /\ DOCKER_PASS = e.pass
                /\ dockerConfig = e.config
          /\ args \in ArgLists
          /\ answers = [get |-> GetResponses, put |-> PutAnswers]
       \/ /\ flags = NoFlags
          /\ DOCKER_USER = <<>> /\ DOCKER_PASS = <<>>
          /\ dockerConfig = Missing
          /\ args = ManyArgs
          /\ answers = [get |-> {r \in GetResponses : r.doc = AnyDoc /\ r.out # "undecodable"},
                        put |-> {"201 Created", "404 Not Found"}]
    /\ pc = "start" /\ exit = "running"
    /\ wire = NoManifest /\ manifest = NoManifest /\ gets = 0
    /\ spawned = 0 /\ enqueued = 0 /\ jobs = <<>> /\ closed = FALSE
    /\ busy = 0 /\ gone = 0
    /\ calls = [j \in 1..(Len(args) - 1) |-> 0]
    /\ puts = <<>> /\ results = <<>> /\ collected = <<>> /\ surfaced = "none"
    /\ url = <<>> /\ parsed = NotCalled
    /\ authRegistry = <<>> /\ authResult = NotCalled

InitMain == InitWith(Environments)

\* the environments without credentials
InitLive == InitWith({e \in Environments : e.flags.u = <<>> /\ e.user = <<>>})

\* lines 318-349
ParseArgs ==
    /\ pc = "start" /\ exit = "running"
    /\ IF flags.v
       THEN exit' = "version" /\ UNCHANGED <<Username, Password, pc>>          \* 323
       ELSE IF Len(args) < 2
       THEN exit' = "usage" /\ UNCHANGED <<Username, Password, pc>>            \* 327
       ELSE /\ Username' = flags.u                                             \* 331
            /\ Password' = IF flags.P THEN TrimSpace(flags.stdin) ELSE flags.p \* 332-340
            /\ pc' = "fetch"
            /\ UNCHANGED exit
    /\ UNCHANGED <<DOCKER_USER, DOCKER_PASS, dockerConfig, parseVars, authVars,
                   flags, args, wire, manifest, gets, answers, spawned, enqueued,
                   jobs, closed, busy, gone, calls, puts, results, collected,
                   surfaced>>

\* getManifest, lines 154-213, when the registry answers resp
getManifest(u, resp) ==
    LET ref  == urlToImageTag(u)
        auth == registryAuth(ref.registry)
        none == [out |-> "err", err |-> "none", sent |-> FALSE, m |-> NoManifest]
    IN  IF auth.out = "panic" THEN [none EXCEPT !.out = "panic"]               \* 171
        ELSE IF auth.out = "err" THEN [none EXCEPT !.err = "resolution"]       \* 172
        ELSE IF resp.out = "transport"
             THEN [none EXCEPT !.err = "transport", !.sent = TRUE]             \* 192
        ELSE IF resp.out = "undecodable"
             THEN [none EXCEPT !.err = "decode", !.sent = TRUE]                \* 208
        ELSE IF resp.out # "200 OK"
             THEN [none EXCEPT !.err = resp.out, !.sent = TRUE]                \* 202
        ELSE [out |-> "ok", err |-> "nil", sent |-> TRUE, m |-> Unmarshal(resp.doc)]

FetchKeepGoing ==
    /\ pc = "fetch" /\ exit = "running"
    /\ \E resp \in answers.get :
         LET g == getManifest(image, resp)
         IN  /\ gets' = gets + (IF g.sent THEN 1 ELSE 0)
             /\ IF g.out = "panic"
                THEN exit' = "panic" /\ UNCHANGED <<pc, manifest, wire, surfaced>>
                ELSE IF g.out = "err"
                THEN /\ surfaced' = g.err
                     /\ pc' = "spawn"
                     /\ UNCHANGED <<exit, manifest, wire>>
                ELSE /\ manifest' = g.m
                     /\ wire' = resp.doc
                     /\ pc' = "spawn"
                     /\ UNCHANGED <<exit, surfaced>>
    /\ UNCHANGED <<envVars, parseVars, authVars, flags, args, answers, spawned,
                   enqueued, jobs, closed, busy, gone, calls, puts, results,
                   collected>>

\* lines 350-356
Fetch ==
    /\ pc = "fetch" /\ exit = "running"
    /\ \E resp \in answers.get :
         LET g == getManifest(image, resp)
         IN  /\ gets' = gets + (IF g.sent THEN 1 ELSE 0)
             /\ IF g.out = "panic"
                THEN exit' = "panic" /\ UNCHANGED <<pc, manifest, wire, surfaced>>
                ELSE IF g.out = "err"
                THEN /\ surfaced' = g.err
                     /\ exit' = "fetchfail"                                    \* 354
                     /\ UNCHANGED <<pc, manifest, wire>>
                ELSE /\ manifest' = g.m
                     /\ wire' = resp.doc
                     /\ pc' = "spawn"
                     /\ UNCHANGED <<exit, surfaced>>
    /\ UNCHANGED <<envVars, parseVars, authVars, flags, args, answers, spawned,
                   enqueued, jobs, closed, busy, gone, calls, puts, results,
                   collected>>

\* lines 364-366: one turn of the loop that starts the workers
Spawn ==
    /\ pc = "spawn" /\ exit = "running"
    /\ IF spawned < workers
       THEN spawned' = spawned + 1 /\ UNCHANGED pc
       ELSE pc' = "enqueue" /\ UNCHANGED spawned
    /\ UNCHANGED <<envVars, parseVars, authVars, flags, args, exit, wire, manifest,
                   gets, answers, enqueued, jobs, closed, busy, gone, calls, puts,
                   results, collected, surfaced>>

UploadJobFirst(i) == [idx |-> 1, Manifest |-> manifest, Image |-> newImages[1]]

\* the UploadJob of the i-th new image (idx is not a field of the struct: it
\* names the job in calls and puts)
UploadJob(i) == [idx |-> i, Manifest |-> manifest, Image |-> newImages[i]]

\* lines 367-372: one send on jobs, which blocks while the channel is full
Enqueue ==
    /\ pc = "enqueue" /\ exit = "running"
    /\ enqueued < Len(newImages)
    /\ Len(jobs) < jobsCap
    /\ jobs' = Append(jobs, UploadJob(enqueued + 1))
    /\ enqueued' = enqueued + 1
    /\ UNCHANGED <<envVars, parseVars, authVars, flags, args, pc, exit, wire,
                   manifest, gets, answers, spawned, closed, busy, gone, calls,
                   puts, results, collected, surfaced>>

\* line 373
Close ==
    /\ pc = "enqueue" /\ exit = "running"
    /\ enqueued = Len(newImages)
    /\ closed' = TRUE
    /\ pc' = "collect"
    /\ UNCHANGED <<envVars, parseVars, authVars, flags, args, exit, wire, manifest,
                   gets, answers, spawned, enqueued, jobs, busy, gone, calls, puts,
                   results, collected, surfaced>>

\* lines 374-380, had the loop gone on to the last result before failing
CollectAll ==
    /\ pc = "collect" /\ exit = "running"
    /\ Len(collected) < Len(newImages)
    /\ results # <<>>
    /\ LET err == Head(results)
       IN  /\ results' = Tail(results)
           /\ collected' = Append(collected, err)
           /\ surfaced' = IF err # "nil" /\ surfaced = "none" THEN err ELSE surfaced
           /\ exit' = IF Len(collected) + 1 = Len(newImages) /\ surfaced' # "none"
                      THEN "uploadfail" ELSE exit
    /\ UNCHANGED <<envVars, parseVars, authVars, flags, args, pc, wire, manifest,
                   gets, answers, spawned, enqueued, jobs, closed, busy, gone,
                   calls, puts>>

\* lines 374-380: one turn of the loop that receives the results; collected
\* logs every value received, the failing one included
Collect ==
    /\ pc = "collect" /\ exit = "running"
    /\ Len(collected) < Len(newImages)
    /\ results # <<>>
    /\ LET err == Head(results)
       IN  /\ results' = Tail(results)
           /\ collected' = Append(collected, err)
           /\ IF err # "nil"
              THEN surfaced' = err /\ exit' = "uploadfail"                     \* 378
              ELSE UNCHANGED <<surfaced, exit>>
    /\ UNCHANGED <<envVars, parseVars, authVars, flags, args, pc, wire, manifest,
                   gets, answers, spawned, enqueued, jobs, closed, busy, gone,
                   calls, puts>>

\* line 381: main returns and the process ends
Return ==
    /\ pc = "collect" /\ exit = "running"
    /\ Len(collected) = Len(newImages)
    /\ pc' = "done"
    /\ exit' = "ok"
    /\ UNCHANGED <<envVars, parseVars, authVars, flags, args, wire, manifest, gets,
                   answers, spawned, enqueued, jobs, closed, busy, gone, calls,
                   puts, results, collected, surfaced>>

----------------------------------------------------------------------------
(* manifestUploadWorker, lines 290-295, and uploadManifest, lines 215-275.  *)
(* The goroutines are anonymous: spawned - busy - gone of them wait on jobs.*)

idle == spawned - busy - gone

\* the PUT request of uploadManifest(u, m) with credential tok, lines 236-257
PutRequest(j, tok) ==
    LET ref == urlToImageTag(j.Image)
    IN  [job |-> j.idx, registry |-> ref.registry, image |-> ref.image,
         tag |-> ref.tag, auth |-> tok, contentType |-> j.Manifest.MediaType,
         body |-> Marshal(j.Manifest)]

\* lines 291-292 and 215-258: a worker receives a job and calls
\* uploadManifest, which panics, fails on the credentials, or sends the PUT
WorkerTake ==
    /\ exit = "running"
    /\ idle > 0
    /\ jobs # <<>>
    /\ LET j    == Head(jobs)
           auth == registryAuth(urlToImageTag(j.Image).registry)
       IN  /\ jobs' = Tail(jobs)
           /\ calls' = [calls EXCEPT ![j.idx] = @ + 1]
           /\ IF auth.out = "panic"
              THEN exit' = "panic" /\ UNCHANGED <<results, puts, busy>>         \* 231
              ELSE IF auth.out = "err"
              THEN /\ Len(results) < resultsCap
                   /\ results' = Append(results, "resolution")                 \* 234, 293
                   /\ UNCHANGED <<exit, puts, busy>>
              ELSE /\ puts' = Append(puts, PutRequest(j, auth.tok))            \* 258
                   /\ busy' = busy + 1
                   /\ UNCHANGED <<exit, results>>
    /\ UNCHANGED <<envVars, parseVars, authVars, flags, args, pc, wire, manifest,
                   gets, answers, spawned, enqueued, closed, gone, collected,
                   surfaced>>

\* lines 258-274 and 293: the registry answers, uploadManifest returns and
\* the worker sends the error value on results, blocking while it is full
WorkerFinish ==
    /\ exit = "running"
    /\ busy > 0
    /\ Len(results) < resultsCap
    /\ \E answer \in answers.put :
         results' = Append(results, IF answer = "201 Created" THEN "nil" ELSE answer)
    /\ busy' = busy - 1
    /\ UNCHANGED <<envVars, parseVars, authVars, flags, args, pc, exit, wire,
                   manifest, gets, answers, spawned, enqueued, jobs, closed, gone,
                   calls, puts, collected, surfaced>>

\* line 291: range ends once jobs is closed and empty, and the worker returns
WorkerExit ==
    /\ exit = "running"
    /\ idle > 0
    /\ closed /\ jobs = <<>>
    /\ gone' = gone + 1
    /\ UNCHANGED <<envVars, parseVars, authVars, flags, args, pc, exit, wire,
                   manifest, gets, answers, spawned, enqueued, jobs, closed, busy,
                   calls, puts, results, collected, surfaced>>

----------------------------------------------------------------------------

Next ==
    \/ ParseArgs
    \/ Fetch
    \/ Spawn
    \/ Enqueue
    \/ Close
    \/ Collect
    \/ Return
    \/ WorkerTake
    \/ WorkerFinish
    \/ WorkerExit

Spec == InitMain /\ [][Next]_vars

\* the Go scheduler runs every goroutine that can take a step, and every
\* request to the registry returns
SpecLive == InitLive /\ [][Next]_vars /\ WF_vars(Next)

----------------------------------------------------------------------------
(* Properties of urlToImageTag (SpecParse) *)

Positions(s, c) == {i \in 1..Len(s) : s[i] = c}
FirstPos(s, c) == CHOOSE i \in Positions(s, c) : \A k \in Positions(s, c) : i <= k
LastPos(s, c)  == CHOOSE i \in Positions(s, c) : \A k \in Positions(s, c) : i >= k

\* what is left of the reference once the host is split off at the first '/'
Portion(u) ==
    IF Positions(u, SLASH) = {} THEN u ELSE SubSeq(u, FirstPos(u, SLASH) + 1, Len(u))

\* C7 as stated: the tag is what follows the LAST ':' of the repository+tag
\* portion and the repository is everything before it; "latest" without ':'.
C7_TagAfterLastColon ==
    parsed.called =>
        LET p == Portion(url)
        IN  IF Positions(p, COLON) = {}
            THEN parsed.tag = Latest
            ELSE /\ parsed.tag = SubSeq(p, LastPos(p, COLON) + 1, Len(p))
                 /\ parsed.image = SubSeq(p, 1, LastPos(p, COLON) - 1)

\* C7 amended: the repository is what precedes the FIRST ':' of the portion
\* and the tag is what lies between the first ':' and the second ':' (the
\* end of the portion when there is no second one); "latest" without ':'.
C7_TagAfterFirstColon ==
    parsed.called =>
        LET p == Portion(url)
        IN  IF Positions(p, COLON) = {}
            THEN parsed.tag = Latest /\ parsed.image = p
            ELSE LET i    == FirstPos(p, COLON)
                     rest == SubSeq(p, i + 1, Len(p))
                 IN  /\ parsed.image = SubSeq(p, 1, i - 1)
                     /\ parsed.tag = IF Positions(rest, COLON) = {} THEN rest
                                     ELSE SubSeq(rest, 1, FirstPos(rest, COLON) - 1)

\* a reference with a host and several ':' in its repository+tag portion has
\* been parsed
C7_Witness ==
    /\ parsed.called
    /\ Positions(url, SLASH) # {}
    /\ Cardinality(Positions(Portion(url), COLON)) >= 2
    /\ parsed.tag # <<>>

----------------------------------------------------------------------------
(* Properties of registryAuth (SpecAuth) *)

\* base64.StdEncoding.DecodeString, to read a token back
B64Val(c) == CHOOSE i \in 0..63 : B64Char(i) = c

RECURSIVE DecodeString(_)
DecodeString(t) ==
    IF Len(t) < 4 THEN <<>>
    ELSE LET pad3 == t[3] = EQUALS
             pad4 == t[4] = EQUALS
             n == B64Val(t[1]) * 262144 + B64Val(t[2]) * 4096
                  + (IF pad3 THEN 0 ELSE B64Val(t[3]) * 64)
                  + (IF pad4 THEN 0 ELSE B64Val(t[4]))
             bytes == <<n \div 65536, (n \div 256) % 256, n % 256>>
         IN  SubSeq(bytes, 1, IF pad3 THEN 1 ELSE IF pad4 THEN 2 ELSE 3)
             \o DecodeString(SubSeq(t, 5, Len(t)))

ExplicitPresent == Username # <<>> /\ Password # <<>>
EnvPresent      == DOCKER_USER # <<>> /\ DOCKER_PASS # <<>>

\* the store parses as structured data
StoreParses == dockerConfig.st = "json" /\ dockerConfig.v.t \in {"obj", "null"}

\* the store has an entry for the host with a non-empty auth string
StoreHasToken(host) ==
    /\ StoreParses
    /\ KeyAuths \in DOMAIN dockerConfig.v.m
    /\ LET auths == dockerConfig.v.m[KeyAuths]
       IN  /\ auths.t = "obj"
           /\ host \in DOMAIN auths.m
           /\ auths.m[host].t = "obj"
           /\ KeyAuth \in DOMAIN auths.m[host].m
           /\ auths.m[host].m[KeyAuth].t = "str"
           /\ auths.m[host].m[KeyAuth].s # <<>>

StoredTokenOf(host) == dockerConfig.v.m[KeyAuths].m[host].m[KeyAuth].s

\* C5: precedence explicit > environment > config file.  With explicit
\* username and password the token is base64 of "user:pass" (it decodes to
\* it); without them but with both environment variables it is base64 of
\* theirs; without either it is the stored token, whatever the sources of
\* lower priority hold.
C5_Precedence ==
    authResult.called =>
        /\ ExplicitPresent =>
              /\ authResult.out = "ok"
              /\ DecodeString(authResult.tok) = Username \o <<COLON>> \o Password
        /\ (~ExplicitPresent /\ EnvPresent) =>
              /\ authResult.out = "ok"
              /\ DecodeString(authResult.tok) = DOCKER_USER \o <<COLON>> \o DOCKER_PASS
        /\ (~ExplicitPresent /\ ~EnvPresent /\ StoreHasToken(authRegistry)) =>
              /\ authResult.out = "ok"
              /\ authResult.tok = StoredTokenOf(authRegistry)

\* explicit credentials were resolved while the environment was set too and
\* the store was malformed
C5_Witness ==
    /\ authResult.called
    /\ ExplicitPresent /\ EnvPresent
    /\ dockerConfig.st = "invalid"
    /\ authResult.out = "ok"
    /\ Len(authResult.tok) = 8

\* C6 as stated: with neither explicit nor environment credentials the
\* result is the stored auth string if the host has a non-empty one, absent
\* (empty token, no error) if the file is missing or parses without a usable
\* entry for the host, an error only if the file exists and cannot be read
\* or parsed, and resolution never aborts the process.
C6_StoreResolution ==
    (authResult.called /\ ~ExplicitPresent /\ ~EnvPresent) =>
        /\ authResult.out # "panic"
        /\ StoreHasToken(authRegistry) =>
              authResult = AuthOk(StoredTokenOf(authRegistry))
        /\ dockerConfig.st = "missing" => authResult = AuthOk(<<>>)
        /\ (StoreParses /\ ~StoreHasToken(authRegistry)) => authResult = AuthOk(<<>>)
        /\ authResult.out = "err" <=>
              (dockerConfig.st # "missing" /\ ~StoreParses)

----------------------------------------------------------------------------
(* Properties of main and its workers (Spec, SpecLive) *)

N == Len(args) - 1
Min(a, b) == CHOOSE x \in {a, b} : x <= a /\ x <= b

\* every outcome that has arrived on results, in arrival order
arrived == collected \o results
Failures(q) == {i \in 1..Len(q) : q[i] # "nil"}
FirstFailure(q) == q[CHOOSE i \in Failures(q) : \A k \in Failures(q) : i <= k]
nothingPublished ==
    /\ spawned = 0 /\ enqueued = 0 /\ jobs = <<>> /\ busy = 0
    /\ puts = <<>> /\ results = <<>> /\ collected = <<>>
    /\ \A j \in DOMAIN calls : calls[j] = 0

\* C1: a failed fetch ends the run at once, and as long as no manifest has
\* been fetched no worker is started, no job is enqueued and no PUT is sent.
C1_NoPublishAfterFailedFetch ==
    /\ manifest = NoManifest => (nothingPublished /\ pc \in {"start", "fetch"})
    /\ (pc = "fetch" /\ surfaced # "none") => exit = "fetchfail"
    /\ exit = "fetchfail" => (manifest = NoManifest /\ surfaced # "none")

\* the registry answered the GET with 404 and the run ended
C1_Witness ==
    /\ exit = "fetchfail" /\ surfaced = "404 Not Found" /\ gets = 1
    /\ N >= 2

\* C2 as stated: when the run ends after a successful fetch, every one of
\* the N targets has had exactly one publish attempt.
C2_ExactlyNAttempts ==
    exit \in {"ok", "uploadfail"} => \A j \in 1..N : calls[j] = 1

\* C2 amended: no target ever has two publish attempts and no two PUTs are
\* for the same job; every target has had exactly one when the run ends in
\* success.
C2_AtMostOnceAndAllOnSuccess ==
    /\ \A j \in DOMAIN calls : calls[j] <= 1
    /\ \A i, k \in 1..Len(puts) : puts[i].job = puts[k].job => i = k
    /\ exit = "ok" => /\ \A j \in 1..N : calls[j] = 1
                      /\ {puts[i].job : i \in 1..Len(puts)} = 1..N

\* a run of more targets than workers ended in success
C2_Witness == exit = "ok" /\ N > MaxWorkers /\ Len(puts) = N

\* C3 as stated: a run that ends on a failed publish has collected the
\* outcomes of all N jobs.
C3_FailureAfterAllOutcomes ==
    exit = "uploadfail" => Len(collected) = N

\* C3 amended: the run ends on the first failing outcome main receives:
\* every outcome received before it was a success, it is the one reported,
\* and main receives nothing after it.
C3_FailureOnFirstFailingOutcome ==
    /\ exit = "running" => Failures(collected) = {}
    /\ exit = "uploadfail" =>
          /\ Failures(collected) = {Len(collected)}
          /\ surfaced = collected[Len(collected)]
          /\ Len(collected) <= N

\* the run ended on a failing outcome while a sibling publish was in flight
\* and another job was still queued
C3_Witness ==
    /\ exit = "uploadfail"
    /\ Len(collected) < N
    /\ busy > 0 /\ jobs # <<>>

\* C4 as stated: a run that reached the fetch ends in failure exactly if the
\* fetch failed or an outcome that arrived is a failure; it ends in success
\* only with N successful outcomes; the failure reported is the first
\* failing outcome in arrival order.
C4_FailureIffFailingOutcome ==
    exit \in {"ok", "fetchfail", "uploadfail", "panic"} =>
        /\ exit # "ok" <=> (manifest = NoManifest \/ Failures(arrived) # {})
        /\ exit = "ok" => (Len(arrived) = N /\ Len(puts) = N)
        /\ (exit # "ok" /\ manifest # NoManifest) => surfaced = FirstFailure(arrived)

\* C8: every PUT carries the fetched document's mediaType, schemaVersion,
\* config descriptor and layer descriptors in order, its Content-Type is the
\* fetched mediaType, and every queued job holds the fetched manifest.
C8_ManifestPreserved ==
    /\ \A i \in 1..Len(puts) :
          /\ puts[i].body.mediaType = wire.mediaType
          /\ puts[i].body.schemaVersion = wire.schemaVersion
          /\ puts[i].body.config = wire.config
          /\ puts[i].body.layers = wire.layers
          /\ puts[i].contentType = wire.mediaType
    /\ \A i \in 1..Len(jobs) : jobs[i].Manifest = manifest

\* a manifest of two layers was published to two different registries
C8_Witness ==
    /\ Len(puts) >= 2
    /\ puts[1].registry # puts[2].registry
    /\ Len(wire.layers) = 2 /\ wire.extra # {}

inFlightBounded ==
    /\ spawned <= Min(MaxWorkers, N)
    /\ busy <= Min(MaxWorkers, N)
    /\ pc \in {"enqueue", "collect", "done"} => spawned = Min(MaxWorkers, N)

\* C9 as stated: min(10, N) workers, so at most min(10, N) publishes in
\* flight; a run with N = 0 starts no worker, runs no job, collects no
\* outcome and succeeds.
C9_PoolSizeAndEmptyRunSucceeds ==
    /\ manifest # NoManifest => inFlightBounded
    /\ (N = 0 /\ ~flags.v /\ exit # "running") => (exit = "ok" /\ nothingPublished)

\* C9 amended: min(10, N) workers, so at most min(10, N) publishes in
\* flight; a command line with N = 0 is rejected with the usage text before
\* the fetch: no GET, no worker, no job, no outcome.
C9_PoolSizeAndEmptyRunRejected ==
    /\ manifest # NoManifest => (inFlightBounded /\ N >= 1)
    /\ (N = 0 /\ ~flags.v /\ exit # "running") =>
          (exit = "usage" /\ gets = 0 /\ nothingPublished)

\* ten publishes are in flight in a run of more than ten targets
C9_Witness == busy = MaxWorkers /\ N > MaxWorkers /\ jobs # <<>>

noSendBlocks ==
    exit = "running" =>
        /\ (pc = "enqueue" /\ enqueued < N) => Len(jobs) < jobsCap
        /\ busy > 0 => Len(results) < resultsCap

====
